---- MODULE Spec2Model ----
(***************************************************************************)
(* State-machine model of FeishuImageDownloader                            *)
(* (src/feishu_image_downloader.py): the thread pool of                    *)
(* download_all_images, the worker download_single_image_thread /          *)
(* download_image, the shared rate-limit clock of wait_for_rate_limit and  *)
(* the cached credential of get_tenant_access_token.                       *)
(*                                                                         *)
(* Time is a discrete monotone clock (now); one tick is one unit of        *)
(* time.time().  Durations of the program (min_interval, the token         *)
(* lifetime and its 300 s margin) are scaled to a few ticks.               *)
(* The credential-exchange response is taken to follow the remote API's    *)
(* contract: a response with code 0 carries a tenant_access_token.         *)
(*                                                                         *)
(* Spec is the program; SpecFair adds a fair scheduler and SpecLive also a *)
(* remote service that always answers; SpecPath computes the file names    *)
(* and SpecReport the tallies by image field of generate_download_report.  *)
(***************************************************************************)
EXTENDS Integers, Sequences, FiniteSets, TLC

\* ---- bounds of the model ----
MaxDesc == 2        \* most descriptors extracted from the records
StartTime == 4      \* time.time() when the batch is started
Horizon == 2        \* number of clock ticks explored after StartTime

\* ---- parameters of the program (scaled to ticks) ----
max_workers == 2    \* __init__(max_workers = 2)
min_interval == 2   \* 1.0 / rate_limit
DefaultExpire == 3  \* result.get('expire', 7200)
SafetyMargin == 1   \* the "- 300" of token_expires_at
max_retries == 3    \* self.max_retries = 3

MaxTime == StartTime + Horizon
Workers == 1..max_workers
Descs == 1..MaxDesc
NoWorker == 0
NoToken == 0        \* self.access_token = None

VARIABLES
    now,                \* time.time()
    pool_max_workers,   \* ThreadPoolExecutor(max_workers=self.max_workers)
    image_info_list,    \* the descriptors extracted from the records
    mainpc,             \* position of download_all_images
    queue,              \* work queue of the ThreadPoolExecutor
    future,             \* state of the future of each descriptor
    pc, wtask, site, wake, ret,   \* per pool thread: position and locals
    access_token, token_expires_at,
    rate_limit_lock, last_request_time,
    progress_count,
    download_lock,      \* holder of self.download_lock
    seen,               \* per pool thread: progress_count as read by "+= 1"
    success_count, failed_count, collected, report,
    field_stats,        \* field_stats of generate_download_report
    files,              \* the file at each descriptor's file_path
    \* history variables (observations of the run, never read by the program)
    admitted,           \* number of stamps of last_request_time
    dispatched, counted,
    exch_failed, first_exch,
    resolve_req, resolve_ok, fetch_req,
    fetches,            \* number of binary-fetch requests per descriptor
    resolves            \* number of URL-resolution requests per descriptor

repv == <<report, field_stats>>
mainv == <<mainpc, queue, success_count, failed_count, collected, repv>>
workv == <<pc, wtask, site, wake, ret>>
tokv == <<access_token, token_expires_at>>
ratev == <<rate_limit_lock, last_request_time>>
progv == <<progress_count, download_lock, seen>>
exchv == <<exch_failed, first_exch>>
resv == <<resolve_req, resolves>>
reqv == <<resv, resolve_ok, fetch_req, fetches>>
histvars == <<admitted, dispatched, counted, exchv, reqv>>
vars == <<now, pool_max_workers, image_info_list, future, progv,
          files, mainv, workv, tokv, ratev, histvars>>

\* ---------------------------------------------------------------------
\* Descriptors (extract_image_info)
\* ---------------------------------------------------------------------

\* One image_info dict: the file_token (possibly ''), the image field it
\* was found in (here the first of image_fields) and the fields
\* download_image adds to it.
NewImageInfo(tok) ==
    [file_token |-> tok, field_name |-> "front",
     download_success |-> "unset", error_message |-> "unset",
     local_path |-> "unset"]

FileTokens == {"", "ft"}

\* All descriptor lists of length n.
InfoLists(n) == [1..n -> {NewImageInfo(t) : t \in FileTokens}]

N == Len(image_info_list)
Submitted == 1..N

NoReport == [total |-> -1, success |-> -1, failed |-> -1]
NoStats == <<>>     \* generate_download_report has not run

\* ---------------------------------------------------------------------
\* Initial state: the downloader as constructed by __init__, the records
\* already loaded, the output directory either fresh or holding the files
\* of an earlier run ("old").
\* ---------------------------------------------------------------------
Constructed ==
    /\ now = StartTime
    /\ pool_max_workers \in 1..max_workers
    /\ mainpc = "start"
    /\ queue = <<>>
    /\ future = [d \in Descs |-> "none"]
    /\ pc = [w \in Workers |-> "idle"]
    /\ wtask = [w \in Workers |-> 0]
    /\ site = [w \in Workers |-> "none"]
    /\ wake = [w \in Workers |-> 0]
    /\ ret = [w \in Workers |-> "none"]
    /\ access_token = NoToken
    /\ token_expires_at = 0
    /\ rate_limit_lock = NoWorker
    /\ last_request_time = 0
    /\ progress_count = 0
    /\ download_lock = NoWorker
    /\ seen = [w \in Workers |-> 0]
    /\ success_count = 0
    /\ failed_count = 0
    /\ collected = {}
    /\ report = NoReport
    /\ field_stats = NoStats
    /\ admitted = 0
    /\ dispatched = [d \in Descs |-> 0]
    /\ counted = [d \in Descs |-> 0]
    /\ exch_failed = FALSE
    /\ first_exch = "none"
    /\ resolve_req = {}
    /\ resolve_ok = {}
    /\ fetch_req = {}
    /\ fetches = [d \in Descs |-> 0]
    /\ resolves = [d \in Descs |-> 0]

Init ==
    /\ Constructed
    /\ image_info_list \in UNION {InfoLists(n) : n \in 0..MaxDesc}
    /\ \E old \in BOOLEAN :
          files = [d \in Descs |-> IF old THEN "old" ELSE "absent"]

\* The clock advances on its own.  The batch is started at StartTime; the
\* clock is followed while a task is queued or running, up to MaxTime, and
\* beyond it for as long as a thread is still sleeping in
\* wait_for_rate_limit.
Tick ==
    /\ mainpc = "collect"
    /\ \E d \in Submitted : future[d] \in {"queued", "running"}
    /\ \/ now < MaxTime
       \/ \E w \in Workers : pc[w] = "rl_sleep" /\ now < wake[w]
    /\ now' = now + 1
    /\ UNCHANGED <<pool_max_workers, image_info_list, future,
                   progv, files, mainv, workv, tokv, ratev,
                   histvars>>

\* ---------------------------------------------------------------------
\* download_all_images, first half: extract, reset the counters, submit
\* one task per descriptor to the pool.
\* ---------------------------------------------------------------------
StartBatch ==
    /\ mainpc = "start"
    /\ IF N = 0
       THEN /\ mainpc' = "returned"
            /\ report' = [total |-> 0, success |-> 0, failed |-> 0]
            /\ UNCHANGED field_stats
            /\ UNCHANGED <<queue, future, progv, success_count,
                           failed_count>>
       ELSE /\ mainpc' = "collect"
            /\ progress_count' = 0
            /\ UNCHANGED <<download_lock, seen>>
            /\ success_count' = 0
            /\ failed_count' = 0
            /\ queue' = [i \in 1..N |-> i]
            /\ future' = [d \in Descs |-> IF d \in Submitted THEN "queued"
                                                            ELSE "none"]
            /\ UNCHANGED repv
    /\ UNCHANGED <<now, pool_max_workers,
                   image_info_list, files, collected, workv, tokv,
                   ratev, histvars>>

\* What is left of the work queue once a pool thread has taken its head.
DequeueMissing(q) == q
Dequeue(q) == Tail(q)

\* The threads the executor may run: at most max_workers of them.
PoolUnbounded == Workers
PoolThreads == 1..pool_max_workers

\* A pool thread takes the next task and enters
\* download_single_image_thread -> download_image.  Idle pool threads are
\* interchangeable: the task goes to the first of them.
Take(w) ==
    /\ w \in PoolThreads
    /\ pc[w] = "idle"
    /\ \A v \in PoolThreads : pc[v] = "idle" => w <= v
    /\ queue # <<>>
    /\ LET d == Head(queue) IN
          /\ wtask' = [wtask EXCEPT ![w] = d]
          /\ future' = [future EXCEPT ![d] = "running"]
          /\ dispatched' = [dispatched EXCEPT ![d] = @ + 1]
    /\ queue' = Dequeue(queue)
    /\ pc' = [pc EXCEPT ![w] = "rate_limit"]
    /\ UNCHANGED <<now, pool_max_workers,
                   image_info_list, progv, files, mainpc,
                   success_count, failed_count, collected, repv, site,
                   wake, ret, tokv, ratev, admitted, counted, exchv, reqv>>

\* ---------------------------------------------------------------------
\* wait_for_rate_limit
\* ---------------------------------------------------------------------

\* The time before which the caller does not stamp: it reads the clock
\* (current_time = t) and sleeps min_interval - time_since_last when less
\* than min_interval has passed since the last stamp.
NoSleep(t, last) == t
SleepUntil(t, last) ==
    IF t - last < min_interval THEN t + (min_interval - (t - last)) ELSE t

\* "with self.rate_limit_lock": who may enter.
LockIgnored(w) == TRUE
LockFree(w) == rate_limit_lock = NoWorker

\* Enter the critical section, read the clock, start sleeping if needed.
RLEnter(w) ==
    /\ pc[w] = "rate_limit"
    /\ LockFree(w)
    /\ rate_limit_lock' = w
    /\ wake' = [wake EXCEPT ![w] = SleepUntil(now, last_request_time)]
    /\ pc' = [pc EXCEPT ![w] = "rl_sleep"]
    /\ UNCHANGED <<now, pool_max_workers,
                   image_info_list, future, progv, files,
                   mainv, wtask, site, ret, tokv, last_request_time,
                   histvars>>

\* rate_limit_lock at the end of the "with" block.
LockKept(w) == rate_limit_lock
LockReleased(w) == IF rate_limit_lock = w THEN NoWorker ELSE rate_limit_lock

\* The sleep is over (time.sleep returns no earlier than asked): stamp
\* last_request_time, leave the critical section, go on to the token.
RLStamp(w) ==
    /\ pc[w] = "rl_sleep"
    /\ now >= wake[w]
    /\ last_request_time' = now
    /\ admitted' = admitted + 1
    /\ rate_limit_lock' = LockReleased(w)
    /\ wake' = [wake EXCEPT ![w] = 0]
    /\ pc' = [pc EXCEPT ![w] = "token"]
    /\ site' = [site EXCEPT ![w] = "download"]
    /\ UNCHANGED <<now, pool_max_workers,
                   image_info_list, future, progv, files,
                   mainv, wtask, ret, tokv, dispatched, counted, exchv,
                   reqv>>

\* ---------------------------------------------------------------------
\* get_tenant_access_token, called by download_image (site "download")
\* and by get_real_download_url (site "resolve")
\* ---------------------------------------------------------------------

\* if self.access_token and time.time() < self.token_expires_at
CacheHit == access_token # NoToken /\ now < token_expires_at

\* if not file_token: return False
HandleUnchecked(d) == FALSE
HandleMissing(d) == image_info_list[d].file_token = ""

\* download_image returns False before any "except" clause (lines 169,
\* 177, 183): the descriptor's fields are left as they are.
ReturnFalse(w) ==
    /\ ret' = [ret EXCEPT ![w] = "False"]
    /\ pc' = [pc EXCEPT ![w] = "progress"]
    /\ site' = [site EXCEPT ![w] = "none"]

\* The caller goes on with a token in hand.  download_image checks the
\* file_token and calls get_real_download_url, which asks for the token
\* again and then sends the URL-resolution request.
GotToken(w) ==
    LET d == wtask[w] IN
    IF site[w] = "download"
    THEN IF HandleMissing(d)
         THEN /\ ReturnFalse(w)
              /\ UNCHANGED resv
         ELSE /\ site' = [site EXCEPT ![w] = "resolve"]
              /\ pc' = [pc EXCEPT ![w] = "token"]
              /\ UNCHANGED <<ret, resv>>
    ELSE /\ resolve_req' = resolve_req \cup {d}
         /\ resolves' = [resolves EXCEPT ![d] = @ + 1]
         /\ pc' = [pc EXCEPT ![w] = "res_wait"]
         /\ site' = [site EXCEPT ![w] = "none"]
         /\ UNCHANGED ret

\* The caller gets None: download_image returns False (line 169), and so
\* does it when get_real_download_url returns None (lines 130, 183).
GotNone(w) ==
    /\ ReturnFalse(w)
    /\ UNCHANGED resv

\* Entry of get_tenant_access_token: return the cached token or send the
\* credential-exchange request.
TokenCheck(w) ==
    /\ pc[w] = "token"
    /\ IF CacheHit
       THEN GotToken(w)
       ELSE /\ pc' = [pc EXCEPT ![w] = "tok_wait"]
            /\ UNCHANGED <<ret, site, resv>>
    /\ UNCHANGED <<now, pool_max_workers,
                   image_info_list, future, progv, files,
                   mainv, wtask, wake, tokv, ratev, admitted, dispatched,
                   counted, exchv, resolve_ok, fetch_req,
                   fetches>>

\* self.access_token after a failed exchange (lines 57-63 assign nothing).
TokenErased == NoToken
TokenKept == access_token

\* The credential exchange answers: code 0 (the token is stored, line 54)
\* or a failure (non-zero code or RequestException: return None).  A token
\* is identified by the time up to which the remote service accepts it;
\* first_exch records the answer to the first exchange that completed.
ExchangeResponse(w) ==
    /\ pc[w] = "tok_wait"
    /\ \E ok \in BOOLEAN :
          /\ first_exch' = IF first_exch = "none"
                           THEN (IF ok THEN "ok" ELSE "fail")
                           ELSE first_exch
          /\ IF ok
             THEN /\ access_token' = now + DefaultExpire
                  /\ pc' = [pc EXCEPT ![w] = "tok_set"]
                  /\ UNCHANGED <<ret, site, resv, exch_failed>>
             ELSE /\ exch_failed' = TRUE
                  /\ GotNone(w)
                  /\ access_token' = TokenKept
    /\ UNCHANGED <<now, pool_max_workers,
                   image_info_list, future, progv, files,
                   mainv, wtask, wake, token_expires_at, ratev, admitted,
                   dispatched, counted, resolve_ok, fetch_req,
                   fetches>>

\* Line 55: the expiry is stored after the token, then the token returned.
TokenSetExpiry(w) ==
    /\ pc[w] = "tok_set"
    /\ token_expires_at' = now + DefaultExpire - SafetyMargin
    /\ GotToken(w)
    /\ UNCHANGED <<now, pool_max_workers,
                   image_info_list, future, progv, files,
                   mainv, wtask, wake, access_token, ratev, admitted,
                   dispatched, counted, exchv, resolve_ok, fetch_req,
                   fetches>>

\* ---------------------------------------------------------------------
\* get_real_download_url and the rest of download_image
\* ---------------------------------------------------------------------

\* if not real_download_url: return False
UrlUnchecked(got_url) == FALSE
UrlMissing(got_url) == ~got_url

\* The result of download_image when an "except" clause of lines 224-242
\* has handled the error of one item.
ItemErrorEscapes == "exc"
ItemErrorResult == "False"

\* error_message: "网络请求失败: ..." after a RequestException (lines
\* 224-237), "下载失败: ..." after any other exception (lines 238-242).
ErrorMessage(r) ==
    IF r \in {"request_error", "stream_error"} THEN "network" ELSE "other"

\* Where the pool thread goes on after an "except" clause: to the end of
\* download_single_image_thread.  No clause starts the item again.
RetryItem == "rate_limit"
AfterItemError == "progress"

\* The "except" clauses: flag the descriptor and return.  Were the error to
\* leave download_image, the future of the task would hold the exception
\* and the progress counter would be skipped.
ItemError(w, msg) ==
    LET d == wtask[w] IN
    /\ image_info_list' = [image_info_list EXCEPT
                              ![d].download_success = "False",
                              ![d].error_message = msg]
    /\ IF ItemErrorResult = "exc"
       THEN /\ future' = [future EXCEPT ![d] = "exc"]
            /\ pc' = [pc EXCEPT ![w] = "idle"]
            /\ wtask' = [wtask EXCEPT ![w] = 0]
            /\ UNCHANGED ret
       ELSE /\ ret' = [ret EXCEPT ![w] = ItemErrorResult]
            /\ pc' = [pc EXCEPT ![w] = AfterItemError]
            /\ UNCHANGED <<future, wtask>>

\* The URL resolution answers: a URL (code 0 and a non-empty
\* tmp_download_url) or None (error code, no URL, or an exception, all
\* caught inside get_real_download_url).  With a URL download_image sends
\* the binary fetch.
ResolveResponse(w) ==
    /\ pc[w] = "res_wait"
    /\ \E got_url \in BOOLEAN :
          /\ resolve_ok' = IF got_url THEN resolve_ok \cup {wtask[w]}
                                      ELSE resolve_ok
          /\ IF UrlMissing(got_url)
             THEN /\ ret' = [ret EXCEPT ![w] = "False"]
                  /\ pc' = [pc EXCEPT ![w] = "progress"]
                  /\ UNCHANGED <<fetch_req, fetches>>
             ELSE /\ fetch_req' = fetch_req \cup {wtask[w]}
                  /\ fetches' = [fetches EXCEPT ![wtask[w]] = @ + 1]
                  /\ pc' = [pc EXCEPT ![w] = "fetch_wait"]
                  /\ UNCHANGED ret
    /\ UNCHANGED <<now, pool_max_workers,
                   image_info_list, future, progv, files,
                   mainv, wtask, site, wake, tokv, ratev, admitted,
                   dispatched, counted, exchv, resv>>

\* The binary fetch answers.  A RequestException (connection error or
\* raise_for_status) is handled by lines 224-237; otherwise the file is
\* opened with mode 'wb', which creates or truncates it, unless open()
\* itself fails (lines 238-242).
FetchResponse(w) ==
    /\ pc[w] = "fetch_wait"
    /\ \E r \in {"request_error", "open_error", "opened"} :
          IF r = "opened"
          THEN /\ files' = [files EXCEPT ![wtask[w]] = "partial"]
               /\ pc' = [pc EXCEPT ![w] = "writing"]
               /\ UNCHANGED <<image_info_list, future, wtask, ret>>
          ELSE /\ ItemError(w, ErrorMessage(r))
               /\ UNCHANGED files
    /\ UNCHANGED <<now, pool_max_workers,
                   progv, mainv, site, wake, tokv, ratev,
                   histvars>>

\* The body is streamed into the open file: all of it arrives and is
\* written (lines 215-222), or the stream breaks (RequestException) or a
\* write fails (OSError) and what was written so far stays in the file.
WriteBody(w) ==
    /\ pc[w] = "writing"
    /\ \E r \in {"stream_error", "write_error", "written"} :
          IF r = "written"
          THEN /\ files' = [files EXCEPT ![wtask[w]] = "complete"]
               /\ image_info_list' = [image_info_list EXCEPT
                                         ![wtask[w]].local_path = "set",
                                         ![wtask[w]].download_success = "True"]
               /\ ret' = [ret EXCEPT ![w] = "True"]
               /\ pc' = [pc EXCEPT ![w] = "progress"]
               /\ UNCHANGED <<future, wtask>>
          ELSE /\ ItemError(w, ErrorMessage(r))
               /\ UNCHANGED files
    /\ UNCHANGED <<now, pool_max_workers,
                   progv, mainv, site, wake, tokv, ratev,
                   histvars>>

\* ---------------------------------------------------------------------
\* download_single_image_thread, after download_image has returned
\* ---------------------------------------------------------------------

\* "with self.download_lock": who may enter.
DownloadLockIgnored(w) == TRUE
DownloadLockFree(w) == download_lock = NoWorker

\* download_image has returned: take download_lock and read
\* progress_count (first half of "self.progress_count += 1").
ProgressEnter(w) ==
    /\ pc[w] = "progress"
    /\ DownloadLockFree(w)
    /\ download_lock' = w
    /\ seen' = [seen EXCEPT ![w] = progress_count]
    /\ pc' = [pc EXCEPT ![w] = "prog_inc"]
    /\ UNCHANGED <<now, pool_max_workers, image_info_list, future,
                   progress_count, files, mainv, wtask, site, wake, ret,
                   tokv, ratev, histvars>>

\* Store the incremented counter, release download_lock, return success:
\* the future of the task is done.
ProgressExit(w) ==
    /\ pc[w] = "prog_inc"
    /\ progress_count' = seen[w] + 1
    /\ download_lock' = IF download_lock = w THEN NoWorker ELSE download_lock
    /\ seen' = [seen EXCEPT ![w] = 0]
    /\ future' = [future EXCEPT ![wtask[w]] = ret[w]]
    /\ pc' = [pc EXCEPT ![w] = "idle"]
    /\ wtask' = [wtask EXCEPT ![w] = 0]
    /\ ret' = [ret EXCEPT ![w] = "none"]
    /\ UNCHANGED <<now, pool_max_workers, image_info_list, files, mainv,
                   site, wake, tokv, ratev, histvars>>

\* ---------------------------------------------------------------------
\* download_all_images, second half: collect the results, build the report
\* ---------------------------------------------------------------------

\* failed_count += 1
FailedDropped(c) == c
FailedPlusOne(c) == c + 1

\* One turn of "for future in as_completed(...)": a finished future not
\* yet seen is counted; future.result() re-raises what the task raised.
Collect(d) ==
    /\ mainpc = "collect"
    /\ d \in Submitted \ collected
    /\ future[d] \in {"True", "False", "exc"}
    /\ collected' = collected \cup {d}
    /\ CASE future[d] = "True" ->
               /\ success_count' = success_count + 1
               /\ counted' = [counted EXCEPT ![d] = @ + 1]
               /\ UNCHANGED <<failed_count, mainpc>>
         [] future[d] = "False" ->
               /\ failed_count' = FailedPlusOne(failed_count)
               /\ counted' = [counted EXCEPT ![d] = @ + 1]
               /\ UNCHANGED <<success_count, mainpc>>
         [] OTHER ->
               /\ mainpc' = "raised"
               /\ UNCHANGED <<success_count, failed_count, counted>>
    /\ UNCHANGED <<now, pool_max_workers,
                   image_info_list, future, progv, files,
                   queue, repv, workv, tokv, ratev, admitted, dispatched,
                   exchv, reqv>>

\* generate_download_report, "按字段类型统计": the loop over
\* report['image_info_list'], from descriptor i on, with the tallies so far.
FirstField(img) == "front"
FieldOf(img) == img.field_name

RECURSIVE Tally(_, _, _)
Tally(list, i, stats) ==
    IF i > Len(list)
    THEN stats
    ELSE LET img == list[i]
             fld == FieldOf(img)
             old == IF fld \in DOMAIN stats
                    THEN stats
                    ELSE stats @@ (fld :> [total |-> 0, success |-> 0])
             hit == IF img.download_success = "True" THEN 1 ELSE 0
         IN Tally(list, i + 1,
                  [old EXCEPT ![fld] = [total |-> @.total + 1,
                                        success |-> @.success + hit]])

\* All futures seen: the pool is shut down, the report is built, written
\* by generate_download_report, and returned.
Report ==
    /\ mainpc = "collect"
    /\ collected = Submitted
    /\ report' = [total |-> Len(image_info_list),
                  success |-> success_count, failed |-> failed_count]
    /\ field_stats' = Tally(image_info_list, 1, NoStats)
    /\ mainpc' = "returned"
    /\ UNCHANGED <<now, pool_max_workers,
                   image_info_list, future, progv, files,
                   queue, success_count, failed_count, collected, workv,
                   tokv, ratev, histvars>>

Next ==
    \/ Tick
    \/ StartBatch
    \/ \E w \in Workers : Take(w)
    \/ \E w \in Workers : RLEnter(w)
    \/ \E w \in Workers : RLStamp(w)
    \/ \E w \in Workers : TokenCheck(w)
    \/ \E w \in Workers : ExchangeResponse(w)
    \/ \E w \in Workers : TokenSetExpiry(w)
    \/ \E w \in Workers : ResolveResponse(w)
    \/ \E w \in Workers : FetchResponse(w)
    \/ \E w \in Workers : WriteBody(w)
    \/ \E w \in Workers : ProgressEnter(w)
    \/ \E w \in Workers : ProgressExit(w)
    \/ \E d \in Descs : Collect(d)
    \/ Report

Spec == Init /\ [][Next]_vars

\* The steps the program takes by itself: the clock, the main thread and
\* the pool threads running Python code.  The other steps are answers of
\* the remote service (session.post / session.get return or the stream
\* delivers); no request carries a timeout, so nothing in the program
\* makes them happen.
ProgramStep ==
    \/ Tick
    \/ StartBatch
    \/ \E w \in Workers : Take(w)
    \/ \E w \in Workers : RLEnter(w)
    \/ \E w \in Workers : RLStamp(w)
    \/ \E w \in Workers : TokenCheck(w)
    \/ \E w \in Workers : TokenSetExpiry(w)
    \/ \E w \in Workers : ProgressEnter(w)
    \/ \E w \in Workers : ProgressExit(w)
    \/ \E d \in Descs : Collect(d)
    \/ Report

\* The program under a fair scheduler: its own steps are not postponed
\* for ever.
SpecFair == Spec /\ WF_vars(ProgramStep)

\* The answers of the remote service.
NetworkStep ==
    \/ \E w \in Workers : ExchangeResponse(w)
    \/ \E w \in Workers : ResolveResponse(w)
    \/ \E w \in Workers : FetchResponse(w)
    \/ \E w \in Workers : WriteBody(w)

\* A fair scheduler and a remote service that answers every request,
\* with a result or an error.
SpecLive == SpecFair /\ WF_vars(NetworkStep)

\* =====================================================================
\* File names (download_image, lines 194-207).  In Spec the file of a
\* descriptor is files[d]; here the path itself is computed, character by
\* character, from the fields extract_image_info gives a descriptor.
\* =====================================================================

MaxImages == 2      \* descriptors in a list of SpecPath

RecordIds == {"recA", "recB"}
\* values of the field '编号' (any text; nothing makes it unique)
ProductIds == {<<"P", "/", "1">>, <<"P", "_", "1">>, <<"Q">>}
\* two of the five image_fields
FieldNames == {"front", "back"}
ImageIndexes == 0..1
\* image.get('name', '')
FileNames == {<<>>, <<"a">>, <<"a", ".", "p", "n", "g">>}

PathInfo(rec, pid, fld, idx, name) ==
    [record_id |-> rec, product_id |-> pid, field_name |-> fld,
     image_index |-> idx, file_name |-> name, file_token |-> "ft",
     download_success |-> "unset", error_message |-> "unset",
     local_path |-> "unset"]

PathInfos ==
    {PathInfo(rec, pid, fld, idx, name) :
        rec \in RecordIds, pid \in ProductIds, fld \in FieldNames,
        idx \in ImageIndexes, name \in FileNames}

\* (record_id, field_name, image_index)
Identity(info) == <<info.record_id, info.field_name, info.image_index>>

\* What extract_image_info can return: the descriptors of one record
\* share its product_id and differ in (field_name, image_index); those of
\* different records differ in record_id.
Extractable(list) ==
    \A i, j \in DOMAIN list :
        i # j =>
            /\ Identity(list[i]) # Identity(list[j])
            /\ list[i].record_id = list[j].record_id =>
                  list[i].product_id = list[j].product_id

\* product_id.replace('/', '_')
Sanitize(str) == [i \in 1..Len(str) |-> IF str[i] = "/" THEN "_" ELSE str[i]]

\* os.path.splitext(original_name)[1]: from the last dot on, unless only
\* dots come before it; '.jpg' when original_name is empty.
Ext(name) ==
    IF name = <<>>
    THEN <<".", "j", "p", "g">>
    ELSE LET dots == {i \in 1..Len(name) :
                         /\ name[i] = "."
                         /\ \E j \in 1..(i - 1) : name[j] # "."}
         IN IF dots = {}
            THEN <<>>
            ELSE SubSeq(name, CHOOSE i \in dots : \A j \in dots : j <= i,
                        Len(name))

\* str(image_index)
IndexStr(i) == <<<<"0", "1", "2", "3", "4", "5", "6", "7", "8", "9">>[i + 1]>>

OutputDir == <<"out", "/">>

\* file_path = os.path.join(output_dir,
\*                 f"{product_id}_{field_name}_{image_index}{ext}")
FilePath(info) ==
    OutputDir \o Sanitize(info.product_id) \o <<"_", info.field_name, "_">>
        \o IndexStr(info.image_index) \o Ext(info.file_name)

InitPath ==
    /\ Constructed
    /\ image_info_list \in {list \in [1..MaxImages -> PathInfos] :
                                Extractable(list)}
    /\ files = [d \in Descs |-> "absent"]

\* download_image succeeds for descriptor d: the body is written to
\* file_path and the descriptor is updated (lines 195-220).
SaveFile(d) ==
    /\ d \in Submitted
    /\ image_info_list[d].download_success = "unset"
    /\ image_info_list' = [image_info_list EXCEPT
                              ![d].local_path = FilePath(image_info_list[d]),
                              ![d].download_success = "True"]
    /\ UNCHANGED <<now, pool_max_workers, future, progv, files,
                   mainv, workv, tokv, ratev, histvars>>

\* download_image fails for descriptor d before a file is opened (lines
\* 224-237).
FailItem(d) ==
    /\ d \in Submitted
    /\ image_info_list[d].download_success = "unset"
    /\ image_info_list' = [image_info_list EXCEPT
                              ![d].download_success = "False",
                              ![d].error_message = "network"]
    /\ UNCHANGED <<now, pool_max_workers, future, progv, files,
                   mainv, workv, tokv, ratev, histvars>>

NextPath ==
    \/ \E d \in 1..MaxImages : SaveFile(d)
    \/ \E d \in 1..MaxImages : FailItem(d)

SpecPath == InitPath /\ [][NextPath]_vars

\* =====================================================================
\* The report by image field (generate_download_report, lines 335-348).
\* In Spec every descriptor comes from the same image field; here the
\* descriptors come from different fields, and a task is followed only
\* from its submission to its result.
\* =====================================================================

ReportInfos ==
    {[NewImageInfo("ft") EXCEPT !.field_name = f] : f \in FieldNames}

InitReport ==
    /\ Constructed
    /\ image_info_list \in UNION {[1..n -> ReportInfos] : n \in 0..MaxDesc}
    /\ files = [d \in Descs |-> "absent"]

\* The work queue without task d.
Without(q, d) == SelectSeq(q, LAMBDA x : x # d)

\* download_single_image_thread as a whole for descriptor d:
\* download_image saves the file (lines 219-222), fails in an "except"
\* clause (lines 224-242) or returns False early (lines 169, 177, 183);
\* the progress counter goes up and the future holds the result.
RunTask(d) ==
    /\ mainpc = "collect"
    /\ d \in Submitted
    /\ future[d] = "queued"
    /\ \E r \in {"saved", "error", "refused"} :
          /\ image_info_list' =
                CASE r = "saved" ->
                       [image_info_list EXCEPT
                           ![d].download_success = "True",
                           ![d].local_path = "set"]
                  [] r = "error" ->
                       [image_info_list EXCEPT
                           ![d].download_success = "False",
                           ![d].error_message = "network"]
                  [] OTHER -> image_info_list
          /\ future' = [future EXCEPT
                           ![d] = IF r = "saved" THEN "True" ELSE "False"]
    /\ queue' = Without(queue, d)
    /\ progress_count' = progress_count + 1
    /\ dispatched' = [dispatched EXCEPT ![d] = @ + 1]
    /\ UNCHANGED <<now, pool_max_workers, download_lock, seen, files,
                   mainpc, success_count, failed_count, collected, repv,
                   workv, tokv, ratev, admitted, counted, exchv, reqv>>

NextReport ==
    \/ StartBatch
    \/ \E d \in Descs : RunTask(d)
    \/ \E d \in Descs : Collect(d)
    \/ Report

SpecReport == InitReport /\ [][NextReport]_vars

\* =====================================================================
\* Properties
\* =====================================================================

EmptyHandle(d) == image_info_list[d].file_token = ""
WorkersOn(d) == {w \in Workers : wtask[w] = d}
InExchange == {w \in Workers : pc[w] = "tok_wait"}
Untouched(d) == files[d] \in {"absent", "old"}
Running == {d \in Descs : future[d] = "running"}
Sleepers == {w \in Workers : pc[w] = "rl_sleep"}
Finished(d) == future[d] \in {"True", "False"}
\* img.get('download_success', False)
Flagged == {d \in Submitted : image_info_list[d].download_success = "True"}
\* The descriptors found in image field f.
InField(f) == {d \in Submitted : image_info_list[d].field_name = f}

\* Sum of the tallies of the fields flds: of the totals, of the successes.
RECURSIVE SumTotal(_, _)
SumTotal(stats, flds) ==
    IF flds = {}
    THEN 0
    ELSE LET f == CHOOSE x \in flds : TRUE
         IN stats[f].total + SumTotal(stats, flds \ {f})

RECURSIVE SumSuccess(_, _)
SumSuccess(stats, flds) ==
    IF flds = {}
    THEN 0
    ELSE LET f == CHOOSE x \in flds : TRUE
         IN stats[f].success + SumSuccess(stats, flds \ {f})

\* C1: when download_all_images returns the report of a non-empty batch,
\* report.total is the number of descriptors extracted and
\* report.total = report.success + report.failed.
C1_ReportTotals ==
    (mainpc = "returned" /\ N > 0) =>
        /\ report.total = N
        /\ report.total = report.success + report.failed

C1_Witness ==
    /\ mainpc = "returned"
    /\ N >= 2
    /\ report.success >= 1
    /\ report.failed >= 1

\* C2: every submitted descriptor is dispatched to one pool thread, once,
\* and its outcome is counted once: never twice while the batch runs, and
\* exactly once each when the batch has returned.
C2_ExactlyOnce ==
    \A d \in Descs :
        /\ dispatched[d] <= 1
        /\ counted[d] <= 1
        /\ Cardinality(WorkersOn(d)) <= 1
        /\ d \notin Submitted => dispatched[d] = 0 /\ counted[d] = 0
        /\ (mainpc = "returned" /\ d \in Submitted) =>
              /\ dispatched[d] = 1
              /\ counted[d] = 1
              /\ future[d] \in {"True", "False"}

C2_Witness ==
    /\ mainpc = "returned"
    /\ N >= 2
    /\ \A d \in Submitted : counted[d] = 1

\* C3: any two consecutive stamps of last_request_time, by whichever pool
\* threads, are at least min_interval apart.
C3_MinSpacing ==
    [][(admitted' = admitted + 1 /\ admitted >= 1) =>
          last_request_time' - last_request_time >= min_interval]_vars

C3_Witness ==
    /\ admitted >= 2
    /\ last_request_time >= StartTime + min_interval
    /\ \A w \in Workers : pc[w] # "idle"

\* C4 (as claimed): at most one credential-exchange request is in flight
\* at any time.
C4_SingleRefresh == Cardinality(InExchange) <= 1

\* C5: a descriptor with an empty file_token ends as a failure, and no
\* URL-resolution request, no fetch request and no file write is ever made
\* for it.
C5_EmptyHandleRejected ==
    \A d \in Submitted :
        EmptyHandle(d) =>
            /\ d \notin resolve_req
            /\ d \notin fetch_req
            /\ Untouched(d)
            /\ future[d] # "True"
            /\ \A w \in WorkersOn(d) :
                  /\ pc[w] \notin {"res_wait", "fetch_wait", "writing"}
                  /\ ret[w] # "True"

C5_Witness ==
    \E d \in Submitted :
        /\ EmptyHandle(d)
        /\ future[d] = "False"
        /\ access_token # NoToken

\* C6 (as claimed): a descriptor with an empty file_token is rejected
\* before any network call: no credential exchange is ever in flight on
\* its behalf.
C6_ValidateBeforeNetwork ==
    \A w \in Workers :
        (wtask[w] # 0 /\ EmptyHandle(wtask[w])) => pc[w] # "tok_wait"

\* C7 (as claimed): if the first credential exchange of the batch fails,
\* no fetch request is issued for any descriptor and no descriptor
\* succeeds.
C7_FirstAuthErrorFailsAll ==
    first_exch = "fail" =>
        /\ fetch_req = {}
        /\ \A d \in Descs : future[d] # "True"

\* C8 (as claimed): once a credential exchange has failed, no descriptor
\* that was not yet started is dispatched.
C8_DrainAfterAuthError ==
    [][exch_failed => dispatched' = dispatched]_vars

\* C9: as long as no URL resolution has returned a URL, no fetch request
\* is issued, no file of the output directory is created or written, and
\* no descriptor succeeds.
C9_ResolverFails ==
    resolve_ok = {} =>
        /\ fetch_req = {}
        /\ \A d \in Descs : Untouched(d)
        /\ \A d \in Descs : future[d] # "True"
        /\ \A w \in Workers : ret[w] # "True"

C9_Witness ==
    /\ mainpc = "returned"
    /\ ~exch_failed
    /\ resolve_ok = {}
    /\ Cardinality(resolve_req) >= 2
    /\ report.failed = N

\* C10: the failure of one item never leaves the pool thread as an
\* exception and never aborts the batch: no future holds an exception,
\* download_all_images never raises, and when it returns every submitted
\* descriptor has been processed and the report is built.
C10_ItemFailureIsolated ==
    /\ mainpc # "raised"
    /\ \A d \in Descs : future[d] # "exc"
    /\ mainpc = "returned" =>
          /\ report # NoReport
          /\ \A d \in Submitted : future[d] \in {"True", "False"}

C10_Witness ==
    /\ mainpc = "returned"
    /\ \E d \in Submitted :
          /\ image_info_list[d].download_success = "False"
          /\ files[d] = "partial"
    /\ \E d \in Submitted : future[d] = "True" /\ counted[d] = 1

\* C11 (as claimed): the file at a descriptor's final path is absent or
\* holds a complete body (of this run or of an earlier one) in every
\* state; a partial body is never there.
C11_NoPartialAtFinalPath ==
    \A d \in Descs : files[d] \in {"absent", "old", "complete"}

\* C12 (as claimed): with at least one retry allowed, a task does not end
\* on a fetch that failed with a network error before a second fetch
\* request has been made for it.
C12_RetryAfterNetworkError ==
    max_retries >= 1 =>
        \A d \in Submitted :
            (Finished(d) /\ image_info_list[d].error_message = "network")
                => fetches[d] >= 2

\* C13 (as claimed): in the final report every failed descriptor carries
\* the failure flag and an error message set by the worker.
C13_FailuresCarryMessage ==
    mainpc = "returned" =>
        \A d \in Submitted :
            future[d] = "False" =>
                /\ image_info_list[d].download_success = "False"
                /\ image_info_list[d].error_message # "unset"

\* C14 (as claimed): two descriptors of different identities that both
\* succeed are written to different paths, so there are as many files as
\* successes.
C14_OneFilePerSuccess ==
    \A d, e \in Submitted :
        (/\ Identity(image_info_list[d]) # Identity(image_info_list[e])
         /\ image_info_list[d].download_success = "True"
         /\ image_info_list[e].download_success = "True")
            => image_info_list[d].local_path # image_info_list[e].local_path

\* C15 (as claimed): whatever the remote service does, even if it never
\* answers a request, the batch eventually returns its report.
C15_BatchReturns == <>(mainpc = "returned")

\* C16 (as claimed): every URL-resolution request has consumed an
\* admission of its own besides the admission at the entry of
\* download_image, so there are at least two admissions per
\* descriptor for which a resolution request was sent.
C16_ResolverAdmitted == admitted >= 2 * Cardinality(resolve_req)

\* C17: when a batch of n >= 1 descriptors returns with all of them
\* successful, at least (n-1) * min_interval has passed since the batch
\* was started, each descriptor has consumed an admission, and the report
\* is total n, success n, failed 0.
C17_BatchDuration ==
    (mainpc = "returned" /\ N >= 1 /\ report.success = N) =>
        /\ now - StartTime >= (N - 1) * min_interval
        /\ admitted >= N
        /\ report = [total |-> N, success |-> N, failed |-> 0]

C17_Witness ==
    /\ mainpc = "returned"
    /\ N = MaxDesc
    /\ pool_max_workers = max_workers
    /\ report.success = N
    /\ now - StartTime = (N - 1) * min_interval

\* C18 (as claimed): a caller that finds the cache valid gets a token
\* whose own expiry minus the safety margin has not passed yet.
C18_CacheHitFresh ==
    \A w \in Workers :
        (pc[w] = "token" /\ CacheHit) => now < access_token - SafetyMargin

\* C19: check, sleep and stamp of wait_for_rate_limit are one critical
\* section: at most one pool thread is between reading and writing
\* last_request_time, it holds rate_limit_lock until it has stamped, and
\* the time it sleeps to was computed from the last stamp made.
C19_RateLimitCriticalSection ==
    /\ Cardinality(Sleepers) <= 1
    /\ \A w \in Sleepers :
          /\ rate_limit_lock = w
          /\ wake[w] >= last_request_time + min_interval
    /\ rate_limit_lock # NoWorker => rate_limit_lock \in Sleepers

C19_Witness ==
    \E w \in Workers :
        /\ pc[w] = "rl_sleep"
        /\ now < wake[w]
        /\ \E v \in Workers \ {w} : pc[v] \notin {"idle", "rate_limit"}

\* C20: the number of descriptors being processed (started and not yet
\* finished) never exceeds the size of the pool, however many are queued.
C20_BoundedConcurrency ==
    /\ Cardinality(Running) <= pool_max_workers
    /\ Cardinality({w \in Workers : pc[w] # "idle"}) <= pool_max_workers

C20_Witness ==
    /\ pool_max_workers < N
    /\ Cardinality(Running) = pool_max_workers
    /\ queue # <<>>

C22_BoundedAttempts ==
    \A d \in Submitted :
        /\ fetches[d] <= 1 + max_retries
        /\ (\/ image_info_list[d].error_message = "other"
            \/ future[d] = "False" /\
                  image_info_list[d].error_message = "unset")
              => resolves[d] <= 1 /\ fetches[d] <= 1

C22_Witness ==
    /\ mainpc = "returned"
    /\ \E d \in Submitted :
          /\ image_info_list[d].error_message = "other"
          /\ fetches[d] = 1
    /\ \E d \in Submitted :
          /\ image_info_list[d].error_message = "unset"
          /\ future[d] = "False"
          /\ resolves[d] = 1

\* C25: when the batch returns, report.success is the number of
\* descriptors whose download_success is True and report.failed the
\* number of those whose flag is False or was never set.
C25_CountersMatchFlags ==
    (mainpc = "returned" /\ N > 0) =>
        /\ report.success = Cardinality(Flagged)
        /\ report.failed = Cardinality(Submitted \ Flagged)

C25_Witness ==
    /\ mainpc = "returned"
    /\ \E d, e \in Submitted :
          /\ image_info_list[d].download_success = "True"
          /\ image_info_list[e].download_success = "unset"
          /\ future[e] = "False"

\* C26: a credential exchange that fails returns no token to its caller
\* (download_image then returns False) and changes neither the cached
\* token nor its expiry, so a token cached earlier stays and a cache that
\* was not valid is still not valid for the next caller.
C26_FailedExchangeFrame ==
    [][\A w \in Workers :
          (pc[w] = "tok_wait" /\ pc'[w] = "progress") =>
              /\ access_token' = access_token
              /\ token_expires_at' = token_expires_at
              /\ ret'[w] = "False"]_vars

C26_Witness ==
    /\ exch_failed
    /\ first_exch = "ok"
    /\ access_token # NoToken
    /\ \E w \in Workers : pc[w] = "progress" /\ ret[w] = "False"
    /\ \E w \in Workers : pc[w] = "tok_set"

\* C24: with a fair scheduler, every pool thread that has called
\* wait_for_rate_limit is eventually admitted (it reaches the token step),
\* and if every network call returns, the batch eventually returns with
\* every submitted descriptor finished.
C24_AdmittedAndComplete ==
    /\ \A w \in Workers :
          (pc[w] \in {"rate_limit", "rl_sleep"}) ~> (pc[w] = "token")
    /\ <>(mainpc = "returned" /\ \A d \in Submitted : Finished(d))

C24_Witness ==
    /\ mainpc = "returned"
    /\ N = MaxDesc
    /\ admitted = N
    /\ last_request_time >= StartTime + (N - 1) * min_interval
    /\ progress_count = N
    /\ download_lock = NoWorker
    /\ rate_limit_lock = NoWorker

\* C23: in the report of a non-empty batch there is a tally for exactly
\* the field names that occur, each descriptor is counted under its own
\* field name (total, and success when its flag is True), and summed over
\* the field names the totals are report.total and the successes
\* report.success.
C23_FieldTallies ==
    (mainpc = "returned" /\ N > 0) =>
        /\ DOMAIN field_stats =
              {image_info_list[d].field_name : d \in Submitted}
        /\ \A f \in DOMAIN field_stats :
              /\ field_stats[f].total = Cardinality(InField(f))
              /\ field_stats[f].success =
                    Cardinality(InField(f) \cap Flagged)
        /\ SumTotal(field_stats, DOMAIN field_stats) = report.total
        /\ SumSuccess(field_stats, DOMAIN field_stats) = report.success

C23_Witness ==
    /\ mainpc = "returned"
    /\ Cardinality(DOMAIN field_stats) = 2
    /\ \E f, g \in DOMAIN field_stats :
          /\ field_stats[f] = [total |-> 1, success |-> 1]
          /\ field_stats[g] = [total |-> 1, success |-> 0]

====
